---- MODULE Spec2Model ----
(***************************************************************************)
(* Model of zcash-donation-tracker: the JSON-RPC transport                 *)
(* (zdt/rpc_client.py, ZcashRPCClient._call), the scan engine              *)
(* (ZcashRPCClient.scan_donations) and the summary cache in front of it    *)
(* (zdt/webapp.py, get_cached_summary).                                    *)
(*                                                                         *)
(* get_cached_summary is a plain function over two module globals and      *)
(* takes no lock.  Each call is modelled as a thread of control whose      *)
(* position (pc) advances one source step at a time; every RPC round trip  *)
(* is one step, and the two global assignments of lines 75 and 76 are two  *)
(* steps.  Calls are numbered in the order they enter; at most NumCallers  *)
(* of them run at the same time.                                           *)
(***************************************************************************)
EXTENDS Integers, Sequences, FiniteSets, TLC

----------------------------------------------------------------------------
(* Bounds of the model *)

NumCallers == 2
MaxCalls == 2
MaxTicks == 1
MaxScans == 2
MaxLimit == 4

----------------------------------------------------------------------------
(* Program constants *)

CACHE_TTL_SECONDS == 60

Calls == 1..MaxCalls

\* Python None for the two Optional globals and for results
NoSummary == [tag |-> "None"]
NoTime == -1

VIEWING_KEY == "zviewkey"
RPC_URL == "http://localhost:18232"

----------------------------------------------------------------------------
(* Configuration: ZcashConfig and its validation *)

ZcashConfig(rpc_url, rpc_user, rpc_password, viewing_key, network) ==
    [rpc_url |-> rpc_url, rpc_user |-> rpc_user, rpc_password |-> rpc_password,
     viewing_key |-> viewing_key, network |-> network]

\* a complete configuration
ValidConfig == ZcashConfig(RPC_URL, "user", "secret", VIEWING_KEY, "testnet")

\* ZcashConfig.from_env with no variable set: the defaults of lines 24-28
EnvDefaults == ZcashConfig(RPC_URL, "", "", "", "testnet")

\* no configuration object
NoConfig == ZcashConfig("", "", "", "", "")

\* validate as it would be without the viewing key rule
validate_skips_viewing_key(config) ==
    (IF config.rpc_url = "" THEN <<"RPC URL is required">> ELSE <<>>)
    \o (IF config.rpc_user = "" THEN <<"RPC user is required">> ELSE <<>>)
    \o (IF config.rpc_password = "" THEN <<"RPC password is required">> ELSE <<>>)
    \o (IF config.network \notin {"testnet", "mainnet"}
        THEN <<"Invalid network">> ELSE <<>>)

\* ZcashConfig.validate: the list of errors, one append per failed test
validate(config) ==
    (IF config.rpc_url = "" THEN <<"RPC URL is required">> ELSE <<>>)
    \o (IF config.rpc_user = "" THEN <<"RPC user is required">> ELSE <<>>)
    \o (IF config.rpc_password = "" THEN <<"RPC password is required">> ELSE <<>>)
    \o (IF config.viewing_key = "" THEN <<"Viewing key is required">> ELSE <<>>)
    \o (IF config.network \notin {"testnet", "mainnet"}
        THEN <<"Invalid network">> ELSE <<>>)

\* the configurations load_config may hand to the web application: a complete
\* one, and one whose file lacks the password
ServerConfigs == {ValidConfig, [ValidConfig EXCEPT !.rpc_password = ""]}

----------------------------------------------------------------------------
(* Error message text.  A message is a sequence of fragments, the way the  *)
(* f-strings of the source build it; Lower and Contains model str.lower()  *)
(* and the `in` substring test on it.                                      *)

ErrTexts == {"Wallet Already Have key", "Invalid Parameter, expected",
             "Connection refused"}

Lower(s) ==
    CASE s = "Wallet Already Have key" -> "wallet already have key"
      [] s = "Invalid Parameter, expected" -> "invalid parameter, expected"
      [] s = "Connection refused" -> "connection refused"
      [] OTHER -> s

\* needle in one lower-cased fragment
FragmentHas(frag, needle) ==
    \/ needle = "already have" /\ Lower(frag) = "wallet already have key"
    \/ needle = "invalid parameter" /\ Lower(frag) = "invalid parameter, expected"

\* needle in str(e).lower()
Contains(msg, needle) ==
    \E i \in 1..Len(msg) : FragmentHas(msg[i], needle)

----------------------------------------------------------------------------
(* JSON values returned in the result field *)

JNull == [v |-> "null", items |-> <<>>]
JList(items) == [v |-> "list", items |-> items]

\* Python truthiness of a JSON result (None and [] are falsy)
Truthy(r) == r.v = "list" /\ r.items # <<>>

\* error field of a response body: null, absent, a falsy value that is not
\* null ({}, "", 0, false), an object with a message, an object without one
\* (the message is then str(error)), or a string
ErrNull == [e |-> "null", message |-> ""]
ErrAbsent == [e |-> "absent", message |-> ""]
ErrEmpty == [e |-> "empty", message |-> ""]
ErrDict(m) == [e |-> "dict", message |-> m]
ErrCodeOnly == [e |-> "dict", message |-> "{'code': -8}"]
ErrStr(m) == [e |-> "str", message |-> m]
ErrorFields == {ErrNull, ErrAbsent, ErrEmpty, ErrCodeOnly}
                 \cup {ErrDict(m) : m \in ErrTexts}
                 \cup {ErrStr("Connection refused")}

\* outcome of the HTTP exchange of one call
Exchange(x, cause, error, result) ==
    [x |-> x, cause |-> cause, error |-> error, result |-> result]

\* ConnectionError, Timeout and RequestException are what session.post and
\* raise_for_status raise (an HTTP error status is a RequestException);
\* NotJSON is a body response.json() cannot parse, NotObject a JSON body that
\* is not an object, Body a JSON object
Exchanges(results) ==
    {Exchange("ConnectionError", t, ErrNull, JNull) : t \in ErrTexts}
    \cup {Exchange("Timeout", "", ErrNull, JNull)}
    \cup {Exchange("RequestException", t, ErrNull, JNull) : t \in ErrTexts}
    \cup {Exchange("NotJSON", "", ErrNull, JNull)}
    \cup {Exchange("NotObject", "", ErrNull, JNull)}
    \cup {Exchange("Body", "", e, r) : e \in ErrorFields, r \in results}

\* what a call hands to its caller
Ok(r) == [tag |-> "ok", result |-> r, msg |-> <<>>]
RPCError(msg) == [tag |-> "ZcashRPCError", result |-> JNull, msg |-> msg]
OtherException == [tag |-> "Exception", result |-> JNull, msg |-> <<>>]

\* ZcashRPCClient._call: map the exchange to a result or a raised exception
call(ex) ==
    CASE ex.x = "ConnectionError" ->
            RPCError(<<"Failed to connect to Zcash RPC at ", RPC_URL, ": ", ex.cause>>)
      [] ex.x = "Timeout" ->
            RPCError(<<"Zcash RPC request timed out">>)
      [] ex.x = "RequestException" ->
            RPCError(<<"Zcash RPC request failed: ", ex.cause>>)
      [] ex.x = "NotJSON" -> OtherException
      [] ex.x = "NotObject" -> OtherException
      [] ex.x = "Body" /\ ex.error.e = "dict" ->
            RPCError(<<"RPC error: ", ex.error.message>>)
      [] ex.x = "Body" /\ ex.error.e = "str" -> OtherException
      [] OTHER -> Ok(ex.result)

----------------------------------------------------------------------------
(* Scan engine: the steps of ZcashRPCClient.scan_donations *)

\* one request as the node sees it; params holds the JSON text of each
\* positional parameter
Request(method, params) == [method |-> method, params |-> params]

ImportRequest(viewing_key) ==
    Request("z_importviewingkey", <<viewing_key, "whenkeyisnew">>)
AddressesRequest == Request("z_listaddresses", <<>>)
ListRequest(address) == Request("z_listreceivedbyaddress", <<address, "0">>)
\* the fallback as it would be if it repeated the shape of the primary call
FallbackRequestPrimaryShape(address) ==
    Request("z_listreceivedbyaddress", <<address, "0">>)

\* list_received_by_address(z_address, 0): params [min_conf, False, address]
FallbackRequest(address) ==
    Request("z_listreceivedbyaddress", <<"0", "False", address>>)

\* import_viewing_key as it would be if it swallowed every RPC error
import_viewing_key_swallows(ex) ==
    LET r == call(ex) IN
    IF r.tag = "ZcashRPCError" THEN Ok(JNull) ELSE r

\* import_viewing_key as it would be without the except clause
import_viewing_key_reraises(ex) == call(ex)

\* import_viewing_key: "already have" in the error text counts as success
import_viewing_key(ex) ==
    LET r == call(ex) IN
    IF r.tag = "ZcashRPCError" /\ Contains(r.msg, "already have")
    THEN Ok(JNull)
    ELSE r

\* the import step of scan_donations: wrap what import_viewing_key raises
ImportStep(ex) ==
    LET r == import_viewing_key(ex) IN
    IF r.tag = "ZcashRPCError"
    THEN RPCError(<<"Failed to import viewing key: ">> \o r.msg)
    ELSE r

NoAddress == ""

\* get_address_from_viewing_key: first address, or None on empty list / RPC error
get_address_from_viewing_key(ex) ==
    LET r == call(ex) IN
    CASE r.tag = "ok" /\ Truthy(r.result) -> [tag |-> "ok", address |-> r.result.items[1]]
      [] r.tag = "ok" -> [tag |-> "ok", address |-> NoAddress]
      [] r.tag = "ZcashRPCError" -> [tag |-> "ok", address |-> NoAddress]
      [] OTHER -> [tag |-> "Exception", address |-> NoAddress]

\* Text is a sequence of code points, so that decoding is computed and not
\* looked up.  The memos the node may send:
MemoTest == <<53, 52, 54, 53, 55, 51, 55, 52>>            \* "54657374"
MemoTestPadded == <<53, 52, 54, 53, 55, 51, 55, 52, 48, 48>>  \* "5465737400"
MemoNotHex == <<120, 121, 122>>                           \* "xyz"
MemoOddLength == <<53, 52, 54>>                           \* "546"
MemoNotUtf8 == <<102, 102, 53, 52>>                       \* "ff54"
MemoTwoBytes == <<67, 51, 97, 57>>                        \* "C3a9"

\* Optional fields of a Transaction: block_time and memo may be None
NoBlockTime == [some |-> FALSE, v |-> 0]
BlockTime(t) == [some |-> TRUE, v |-> t]
NoMemo == [some |-> FALSE, v |-> <<>>]
Memo(m) == [some |-> TRUE, v |-> m]

\* item.get(key, default) on one raw entry of the node's list
Get(item, key, default) == IF key \in DOMAIN item THEN item[key] ELSE default

\* value of one hexadecimal digit, -1 for any other character
HexValue(c) ==
    CASE c \in 48..57 -> c - 48
      [] c \in 97..102 -> c - 87
      [] c \in 65..70 -> c - 55
      [] OTHER -> -1

\* bytes.fromhex: pairs of hexadecimal digits, ASCII whitespace skipped
\* between the pairs; ok is FALSE where Python raises ValueError
RECURSIVE FromHex(_)
FromHex(text) ==
    IF text = <<>> THEN [ok |-> TRUE, bytes |-> <<>>]
    ELSE IF Head(text) \in {32} \cup (9..13) THEN FromHex(Tail(text))
    ELSE IF Len(text) < 2 \/ HexValue(text[1]) < 0 \/ HexValue(text[2]) < 0
         THEN [ok |-> FALSE, bytes |-> <<>>]
    ELSE LET rest == FromHex(SubSeq(text, 3, Len(text)))
         IN IF rest.ok
            THEN [ok |-> TRUE,
                  bytes |-> <<16 * HexValue(text[1]) + HexValue(text[2])>> \o rest.bytes]
            ELSE rest

\* bytes.decode("utf-8", errors="ignore") for ASCII and two-byte sequences:
\* a byte that starts no valid sequence is dropped (three- and four-byte
\* sequences, lead bytes 0xE0-0xF4, are outside the memos of the model)
RECURSIVE Utf8Ignore(_)
Utf8Ignore(bytes) ==
    IF bytes = <<>> THEN <<>>
    ELSE IF Head(bytes) < 128 THEN <<Head(bytes)>> \o Utf8Ignore(Tail(bytes))
    ELSE IF /\ Head(bytes) \in 194..223
            /\ Len(bytes) >= 2
            /\ bytes[2] \in 128..191
         THEN <<(Head(bytes) - 192) * 64 + (bytes[2] - 128)>>
                 \o Utf8Ignore(SubSeq(bytes, 3, Len(bytes)))
    ELSE Utf8Ignore(Tail(bytes))

\* str.strip("\x00"): NUL characters removed at both ends
RECURSIVE StripNul(_)
StripNul(text) ==
    IF text = <<>> THEN <<>>
    ELSE IF Head(text) = 0 THEN StripNul(Tail(text))
    ELSE IF text[Len(text)] = 0 THEN StripNul(SubSeq(text, 1, Len(text) - 1))
    ELSE text

\* the decoding as it would be without the strip
DecodeMemoKeepsNul(memo) ==
    LET hex == FromHex(memo) IN
    IF hex.ok THEN Utf8Ignore(hex.bytes) ELSE memo

\* lines 193-199: bytes.fromhex(memo).decode("utf-8", errors="ignore")
\* .strip("\x00"); when fromhex raises, the memo is kept as it is
DecodeMemo(memo) ==
    LET hex == FromHex(memo) IN
    IF hex.ok THEN StripNul(Utf8Ignore(hex.bytes)) ELSE memo

\* lines 186-199 and 203-209: the Transaction built from one raw entry
Transaction(item) ==
    [txid |-> Get(item, "txid", ""),
     amount |-> Get(item, "amount", 0),
     confirmations |-> Get(item, "confirmations", 0),
     block_time |-> IF "blocktime" \in DOMAIN item THEN BlockTime(item.blocktime)
                    ELSE NoBlockTime,
     memo |-> IF "memo" \in DOMAIN item
              THEN (IF item.memo # <<>> THEN Memo(DecodeMemo(item.memo))
                    ELSE Memo(item.memo))
              ELSE NoMemo]

\* the loop as it would be if it kept the entries with amount >= 0
RECURSIVE ParseTransactionsKeepsZero(_, _, _)
ParseTransactionsKeepsZero(received, transactions, total) ==
    IF received = <<>> THEN [transactions |-> transactions, total |-> total]
    ELSE LET item == Head(received)
             amount == Get(item, "amount", 0)
         IN IF amount >= 0
            THEN ParseTransactionsKeepsZero(Tail(received),
                        Append(transactions, Transaction(item)), total + amount)
            ELSE ParseTransactionsKeepsZero(Tail(received), transactions, total)

\* the loop of lines 182-210: entries with amount > 0 are appended to
\* transactions and added to total, the others are skipped
RECURSIVE ParseTransactions(_, _, _)
ParseTransactions(received, transactions, total) ==
    IF received = <<>> THEN [transactions |-> transactions, total |-> total]
    ELSE LET item == Head(received)
             amount == Get(item, "amount", 0)
         IN IF amount > 0
            THEN ParseTransactions(Tail(received),
                        Append(transactions, Transaction(item)), total + amount)
            ELSE ParseTransactions(Tail(received), transactions, total)

\* DonationSummary returned by scan_donations: the zero summary of lines
\* 173-179 when the list is empty or null, the aggregate of lines 212-217
\* otherwise; id is the identity of the instance (one new object per scan),
\* t the value of datetime.now()
DonationSummary(id, received, t) ==
    IF ~Truthy(received)
    THEN [tag |-> "Summary", id |-> id, total_donations |-> 0, tx_count |-> 0,
          last_updated |-> t, transactions |-> <<>>]
    ELSE LET parsed == ParseTransactions(received.items, <<>>, 0)
         IN [tag |-> "Summary", id |-> id,
             total_donations |-> parsed.total,
             tx_count |-> Len(parsed.transactions),
             last_updated |-> t,
             transactions |-> parsed.transactions]

\* truthiness of Transaction.block_time (Optional[int]): None and 0 are falsy
HasBlockTime(tx) == tx.block_time.some /\ tx.block_time.v # 0

\* sorted(..., key=block_time, reverse=True): descending and stable, an
\* element goes behind the ones whose key is at least its own
RECURSIVE SortedByBlockTime(_)
SortedByBlockTime(txs) ==
    IF txs = <<>> THEN <<>>
    ELSE LET tx == txs[Len(txs)]
             front == SortedByBlockTime(SubSeq(txs, 1, Len(txs) - 1))
             n == Cardinality({i \in 1..Len(front) :
                                 front[i].block_time.v >= tx.block_time.v})
         IN SubSeq(front, 1, n) \o <<tx>> \o SubSeq(front, n + 1, Len(front))

\* the slice seq[:limit] of Python: a negative limit counts from the end
SliceTo(seq, limit) ==
    IF limit >= 0
    THEN SubSeq(seq, 1, IF limit < Len(seq) THEN limit ELSE Len(seq))
    ELSE SubSeq(seq, 1, IF Len(seq) + limit > 0 THEN Len(seq) + limit ELSE 0)

\* DonationSummary.get_last_transactions
get_last_transactions(transactions, limit) ==
    SliceTo(SortedByBlockTime(SelectSeq(transactions, HasBlockTime)), limit)

\* raw entries the node may list
EntryA == [txid |-> "tx1", amount |-> 15, confirmations |-> 10, blocktime |-> 100,
           memo |-> MemoTest]
EntryB == [txid |-> "tx2", amount |-> 25, confirmations |-> 5, blocktime |-> 200]
EntryZero == [txid |-> "tx3", amount |-> 0, confirmations |-> 1, blocktime |-> 300]
EntryNegative == [txid |-> "tx4", amount |-> -5, confirmations |-> 2]
EntryNoAmount == [txid |-> "tx5", confirmations |-> 0, memo |-> MemoNotHex]
EntryPadded == [txid |-> "tx6", amount |-> 1, confirmations |-> 3, blocktime |-> 150,
                memo |-> MemoTestPadded]
EntryEpoch == [txid |-> "tx7", amount |-> 2, confirmations |-> 0, blocktime |-> 0,
               memo |-> MemoNotHex]
EntryUnconfirmed == [txid |-> "tx8", amount |-> 3, confirmations |-> 0,
                     memo |-> MemoNotUtf8]
EntryLate == [txid |-> "tx9", amount |-> 4, confirmations |-> 7, blocktime |-> 200,
              memo |-> MemoOddLength]
EntryAccent == [txid |-> "tx10", amount |-> 6, confirmations |-> 8, blocktime |-> 100,
                memo |-> MemoTwoBytes]

\* results the node may give to each method
ImportResults == {JNull}
AddressResults == {JNull, JList(<<>>), JList(<<"zaddrA">>), JList(<<"zaddrB", "zaddrA">>)}
ReceivedResults ==
    {JNull, JList(<<>>),
     JList(<<EntryA, EntryZero, EntryB>>),
     JList(<<EntryNegative, EntryB, EntryNoAmount, EntryB>>),
     JList(<<EntryZero, EntryNoAmount>>),
     JList(<<EntryPadded, EntryEpoch, EntryUnconfirmed, EntryLate, EntryAccent>>)}

\* what the node behind the cache answers when it answers: one address, and
\* one donation next to one zero-amount entry
NodeAddresses == {JList(<<"zaddrA">>), JList(<<>>)}
NodeReceived == {JList(<<EntryA, EntryZero>>)}

\* the exchanges of the node behind the cache: one exchange for each distinct
\* outcome of the step that makes the call (two exchanges with the same
\* outcome take the caller to the same state)
NodeImportExchanges ==
    {CHOOSE e \in Exchanges(ImportResults) : ImportStep(e) = r :
        r \in {ImportStep(e) : e \in Exchanges(ImportResults)}}
NodeAddressExchanges ==
    {CHOOSE e \in Exchanges(NodeAddresses) : get_address_from_viewing_key(e) = r :
        r \in {get_address_from_viewing_key(e) : e \in Exchanges(NodeAddresses)}}
NodeListExchanges ==
    {CHOOSE e \in Exchanges(NodeReceived) : call(e) = r :
        r \in {call(e) : e \in Exchanges(NodeReceived)}}

HTTPException(status) == [tag |-> "HTTPException", status |-> status]

\* the two except clauses of get_cached_summary
ErrorResponse(r) ==
    IF r.tag = "ZcashRPCError" THEN HTTPException(502) ELSE HTTPException(500)

----------------------------------------------------------------------------
(* State *)

VARIABLES
    clock,             \* wall clock, seconds (datetime.now())
    cached_summary,    \* global _cached_summary
    cache_timestamp,   \* global _cache_timestamp
    stamped_by,        \* history: id of the call that assigned _cache_timestamp
    pc,                \* position of each call inside get_cached_summary
    request,           \* the HTTP request of a call, until lines 64-66 have
                       \* decided: endpoint and refresh query parameter
    frame,             \* locals of the running call: force_refresh, now,
                       \* config (of client), z_address, summary
    path,              \* history: "hit" or "refresh", decided at lines 64-66
    log,               \* requests the current call has sent to the node
    wrote,             \* history: global assignments done by the current call
    result,            \* what the call returned or raised
    scans,             \* number of scan_donations calls a client has started
    scan_ok,           \* history: how many of them returned a summary
    scan_pc,           \* position of that client inside scan_donations
    scan_address,      \* its local z_address
    scan_log,          \* requests it has sent in this scan, each with the
                       \* HTTP exchange and what _call made of it
    scan_out,          \* what the scan returned or raised
    config_file,       \* ~/.zdt/config.toml: the saved configuration, if any
    cli_pc,            \* position of the running zdt command
    cli_cmd,           \* the command: init, scan or report
    cli_source,        \* history: where load_config took the configuration
    cli_config,        \* local config of the command
    cli_errors,        \* local errors of the command
    cli_log,           \* requests test_connection has sent
    cli_conn,          \* what test_connection returned
    cli_out,           \* lines the command has printed
    cli_exit,          \* exit status of the process
    cli_raised,        \* exception that left the command uncaught
    cli_recent         \* report: the limit and the rows of the table

cache == <<cached_summary, cache_timestamp, stamped_by>>
history == <<path, log, wrote>>
cachevars == <<clock, cached_summary, cache_timestamp, stamped_by, pc,
               request, frame, path, log, wrote, result>>
scanvars == <<scans, scan_ok, scan_pc, scan_address, scan_log, scan_out>>
clivars == <<config_file, cli_pc, cli_cmd, cli_source, cli_config, cli_errors,
             cli_log, cli_conn, cli_out, cli_exit, cli_raised, cli_recent>>
vars == <<clock, cached_summary, cache_timestamp, stamped_by, pc,
          request, frame, path, log, wrote, result,
          scans, scan_ok, scan_pc, scan_address, scan_log, scan_out,
          config_file, cli_pc, cli_cmd, cli_source, cli_config, cli_errors,
          cli_log, cli_conn, cli_out, cli_exit, cli_raised, cli_recent>>

NoResult == [tag |-> "None"]

\* locals of a call that is not running; a local that is not read again is
\* reset to its value here
NoFrame ==
    [force_refresh |-> FALSE, now |-> 0, config |-> NoConfig,
     z_address |-> NoAddress, summary |-> NoSummary]

\* the endpoints that call get_cached_summary
Endpoints == {"summary", "last-transactions", "ui"}

NoRequest == [endpoint |-> "", refresh |-> FALSE]

ScanInit ==
    /\ scans = 0
    /\ scan_ok = 0
    /\ scan_pc = "idle"
    /\ scan_address = NoAddress
    /\ scan_log = <<>>
    /\ scan_out = NoResult

NoExit == -1
NoRecent == [limit |-> 0, rows |-> <<>>]

CliInit ==
    /\ config_file = NoConfig
    /\ cli_pc = "idle"
    /\ cli_cmd = ""
    /\ cli_source = ""
    /\ cli_config = NoConfig
    /\ cli_errors = <<>>
    /\ cli_log = <<>>
    /\ cli_conn = "None"
    /\ cli_out = <<>>
    /\ cli_exit = NoExit
    /\ cli_raised = NoResult
    /\ cli_recent = NoRecent

Init ==
    /\ ScanInit
    /\ CliInit
    /\ clock = 0
    /\ cached_summary = NoSummary
    /\ cache_timestamp = NoTime
    /\ stamped_by = 0
    /\ pc = [c \in Calls |-> "idle"]
    /\ request = [c \in Calls |-> NoRequest]
    /\ frame = [c \in Calls |-> NoFrame]
    /\ path = [c \in Calls |-> "none"]
    /\ log = [c \in Calls |-> <<>>]
    /\ wrote = [c \in Calls |-> 0]
    /\ result = [c \in Calls |-> NoResult]

----------------------------------------------------------------------------
(* The wall clock.  Time passes in steps of the TTL, so that a cached time  *)
(* is either younger than the TTL or at least as old.                      *)

Tick ==
    /\ clock + CACHE_TTL_SECONDS <= MaxTicks * CACHE_TTL_SECONDS
    /\ clock' = clock + CACHE_TTL_SECONDS
    /\ UNCHANGED <<cache, pc, frame, history, result>>
    /\ UNCHANGED <<request, scanvars, clivars>>

----------------------------------------------------------------------------
(* get_cached_summary, one step at a time *)

\* Raise as it would be if a failed refresh still stamped the cache
RaiseStampsCache(c, r) ==
    /\ pc' = [pc EXCEPT ![c] = "raised"]
    /\ result' = [result EXCEPT ![c] = ErrorResponse(r)]
    /\ cache_timestamp' = frame[c].now
    /\ stamped_by' = c
    /\ frame' = [frame EXCEPT ![c] = NoFrame]
    /\ UNCHANGED cached_summary

\* Raise as it would be if a failed refresh fell back to the cached summary
RaiseServesStale(c, r) ==
    /\ IF cached_summary # NoSummary
       THEN /\ pc' = [pc EXCEPT ![c] = "returned"]
            /\ result' = [result EXCEPT ![c] = cached_summary]
       ELSE /\ pc' = [pc EXCEPT ![c] = "raised"]
            /\ result' = [result EXCEPT ![c] = ErrorResponse(r)]
    /\ frame' = [frame EXCEPT ![c] = NoFrame]
    /\ UNCHANGED cache

\* Raise as it would be if a failed refresh invalidated the cache
RaiseInvalidatesCache(c, r) ==
    /\ pc' = [pc EXCEPT ![c] = "raised"]
    /\ result' = [result EXCEPT ![c] = ErrorResponse(r)]
    /\ frame' = [frame EXCEPT ![c] = NoFrame]
    /\ cached_summary' = NoSummary
    /\ cache_timestamp' = NoTime
    /\ stamped_by' = 0

\* the call raises: the except clauses of lines 78-87 turn the failure into
\* an HTTPException and the frame is unwound
Raise(c, r) ==
    /\ pc' = [pc EXCEPT ![c] = "raised"]
    /\ result' = [result EXCEPT ![c] = ErrorResponse(r)]
    /\ frame' = [frame EXCEPT ![c] = NoFrame]
    /\ UNCHANGED cache

\* calls that occupy a caller
Running == {c \in Calls : pc[c] \notin {"idle", "left"}}

\* lines 57-61: the next call enters and reads the clock
Enter(c, force) ==
    /\ pc[c] = "idle"
    /\ \A b \in Calls : b < c => pc[b] # "idle"
    /\ Cardinality(Running) < NumCallers
    /\ frame' = [frame EXCEPT ![c] = [NoFrame EXCEPT !.force_refresh = force,
                                                     !.now = clock]]
    /\ pc' = [pc EXCEPT ![c] = "check"]
    /\ UNCHANGED <<clock, cache, path, log, wrote, result>>
    /\ UNCHANGED <<scanvars, clivars>>

\* lines 115-172: the handlers of /summary, /last-transactions and /ui call
\* get_cached_summary; the first two pass their refresh parameter as
\* force_refresh, web_ui has no parameter and passes nothing
Handle(c, endpoint, refresh) ==
    /\ Enter(c, IF endpoint = "ui" THEN FALSE ELSE refresh)
    /\ request' = [request EXCEPT ![c] = [endpoint |-> endpoint, refresh |-> refresh]]

\* the condition with the age comparison inverted
CacheValidInvertedAge(force, cached, stamp, t) ==
    /\ ~force
    /\ cached # NoSummary
    /\ stamp # NoTime
    /\ t - stamp > CACHE_TTL_SECONDS

\* the condition without the force_refresh test
CacheValidIgnoresForce(force, cached, stamp, t) ==
    /\ cached # NoSummary
    /\ stamp # NoTime
    /\ t - stamp < CACHE_TTL_SECONDS

\* the condition of lines 64-66
CacheValid(force, cached, stamp, t) ==
    /\ ~force
    /\ cached # NoSummary
    /\ stamp # NoTime
    /\ t - stamp < CACHE_TTL_SECONDS

\* lines 64-66: decide between the cached summary and a refresh
CheckCache(c) ==
    /\ pc[c] = "check"
    /\ IF CacheValid(frame[c].force_refresh, cached_summary, cache_timestamp,
                     frame[c].now)
       THEN /\ pc' = [pc EXCEPT ![c] = "hit"]
            /\ path' = [path EXCEPT ![c] = "hit"]
            /\ frame' = [frame EXCEPT ![c] = NoFrame]
       ELSE /\ pc' = [pc EXCEPT ![c] = "refresh"]
            /\ path' = [path EXCEPT ![c] = "refresh"]
            /\ frame' = [frame EXCEPT ![c].force_refresh = FALSE]
    /\ request' = [request EXCEPT ![c] = NoRequest]
    /\ UNCHANGED <<clock, cache, log, wrote, result>>
    /\ UNCHANGED <<scanvars, clivars>>

\* line 68: return _cached_summary
ReturnCached(c) ==
    /\ pc[c] = "hit"
    /\ result' = [result EXCEPT ![c] = cached_summary]
    /\ pc' = [pc EXCEPT ![c] = "returned"]
    /\ UNCHANGED <<clock, cache, frame, history>>
    /\ UNCHANGED <<request, scanvars, clivars>>

\* line 73 and get_rpc_client: load the configuration and build the client;
\* a failure of load_config is re-raised as HTTPException and caught by the
\* `except Exception` clause of line 83
GetRpcClient(c, loaded, config) ==
    /\ pc[c] = "refresh"
    /\ IF loaded
       THEN /\ pc' = [pc EXCEPT ![c] = "import"]
            /\ frame' = [frame EXCEPT ![c].config = config]
            /\ UNCHANGED <<result, cache>>
       ELSE Raise(c, OtherException)
    /\ UNCHANGED <<clock, history>>
    /\ UNCHANGED <<request, scanvars, clivars>>

\* scan_donations lines 152-156: z_importviewingkey
ImportViewingKey(c, ex) ==
    /\ pc[c] = "import"
    /\ log' = [log EXCEPT ![c] = Append(@, ImportRequest(frame[c].config.viewing_key))]
    /\ LET r == ImportStep(ex) IN
       IF r.tag = "ok"
       THEN /\ pc' = [pc EXCEPT ![c] = "addresses"]
            /\ frame' = [frame EXCEPT ![c].config = NoConfig]
            /\ UNCHANGED <<result, cache>>
       ELSE Raise(c, r)
    /\ UNCHANGED <<clock, path, wrote>>
    /\ UNCHANGED <<request, scanvars, clivars>>

\* scan_donations lines 158-161: z_listaddresses, take the first address
ListAddresses(c, ex) ==
    /\ pc[c] = "addresses"
    /\ log' = [log EXCEPT ![c] = Append(@, AddressesRequest)]
    /\ LET r == get_address_from_viewing_key(ex) IN
       CASE r.tag = "ok" /\ r.address # NoAddress ->
                /\ frame' = [frame EXCEPT ![c].z_address = r.address]
                /\ pc' = [pc EXCEPT ![c] = "list"]
                /\ UNCHANGED <<result, cache>>
         [] r.tag = "ok" /\ r.address = NoAddress ->
                Raise(c, RPCError(<<"No z-address found for viewing key">>))
         [] OTHER ->
                Raise(c, OtherException)
    /\ UNCHANGED <<clock, path, wrote>>
    /\ UNCHANGED <<request, scanvars, clivars>>

\* scan_donations lines 173-217 followed by the return to line 74
FinishScan(c, received) ==
    /\ frame' = [frame EXCEPT ![c].summary =
                    DonationSummary(c, received, clock)]
    /\ pc' = [pc EXCEPT ![c] = "store_summary"]
    /\ UNCHANGED <<result, cache>>

\* scan_donations lines 164-171: z_listreceivedbyaddress(address, 0)
ListReceived(c, ex) ==
    /\ pc[c] = "list"
    /\ log' = [log EXCEPT ![c] = Append(@, ListRequest(frame[c].z_address))]
    /\ LET r == call(ex) IN
       CASE r.tag = "ok" -> FinishScan(c, r.result)
         [] r.tag = "ZcashRPCError" /\ Contains(r.msg, "invalid parameter") ->
                /\ pc' = [pc EXCEPT ![c] = "fallback"]
                /\ UNCHANGED <<frame, result, cache>>
         [] OTHER -> Raise(c, r)
    /\ UNCHANGED <<clock, path, wrote>>
    /\ UNCHANGED <<request, scanvars, clivars>>

\* line 169 and list_received_by_address: z_listreceivedbyaddress(0, False, address)
ListFallback(c, ex) ==
    /\ pc[c] = "fallback"
    /\ log' = [log EXCEPT ![c] = Append(@, FallbackRequest(frame[c].z_address))]
    /\ LET r == call(ex) IN
       IF r.tag = "ok"
       THEN FinishScan(c, r.result)
       ELSE Raise(c, r)
    /\ UNCHANGED <<clock, path, wrote>>
    /\ UNCHANGED <<request, scanvars, clivars>>

\* line 75 as it would be if only the call that stamped the cache first
\* could write it
StoreSummaryOwned(c) ==
    /\ pc[c] = "store_summary"
    /\ stamped_by \in {0, c}
    /\ cached_summary' = frame[c].summary
    /\ wrote' = [wrote EXCEPT ![c] = @ + 1]
    /\ pc' = [pc EXCEPT ![c] = "store_timestamp"]
    /\ UNCHANGED <<clock, cache_timestamp, stamped_by, frame,
                   path, log, result>>
    /\ UNCHANGED <<request, scanvars, clivars>>

\* line 75: _cached_summary = summary
StoreSummary(c) ==
    /\ pc[c] = "store_summary"
    /\ cached_summary' = frame[c].summary
    /\ wrote' = [wrote EXCEPT ![c] = @ + 1]
    /\ pc' = [pc EXCEPT ![c] = "store_timestamp"]
    /\ UNCHANGED <<clock, cache_timestamp, stamped_by, frame,
                   path, log, result>>
    /\ UNCHANGED <<request, scanvars, clivars>>

\* lines 76-77: _cache_timestamp = now; return summary
StoreTimestamp(c) ==
    /\ pc[c] = "store_timestamp"
    /\ cache_timestamp' = frame[c].now
    /\ stamped_by' = c
    /\ wrote' = [wrote EXCEPT ![c] = @ + 1]
    /\ result' = [result EXCEPT ![c] = frame[c].summary]
    /\ frame' = [frame EXCEPT ![c] = NoFrame]
    /\ pc' = [pc EXCEPT ![c] = "returned"]
    /\ UNCHANGED <<clock, cached_summary, path, log>>
    /\ UNCHANGED <<request, scanvars, clivars>>

\* the caller has taken its answer
Leave(c) ==
    /\ pc[c] \in {"returned", "raised"}
    /\ pc' = [pc EXCEPT ![c] = "left"]
    /\ path' = [path EXCEPT ![c] = "none"]
    /\ log' = [log EXCEPT ![c] = <<>>]
    /\ wrote' = [wrote EXCEPT ![c] = 0]
    /\ result' = [result EXCEPT ![c] = NoResult]
    /\ UNCHANGED <<clock, cache, frame>>
    /\ UNCHANGED <<request, scanvars, clivars>>

Next ==
    \/ Tick
    \/ \E c \in Calls, endpoint \in Endpoints, refresh \in BOOLEAN :
          Handle(c, endpoint, refresh)
    \/ \E c \in Calls : CheckCache(c)
    \/ \E c \in Calls : ReturnCached(c)
    \/ \E c \in Calls, config \in ServerConfigs : GetRpcClient(c, TRUE, config)
    \/ \E c \in Calls : GetRpcClient(c, FALSE, NoConfig)
    \/ \E c \in Calls, ex \in NodeImportExchanges : ImportViewingKey(c, ex)
    \/ \E c \in Calls, ex \in NodeAddressExchanges : ListAddresses(c, ex)
    \/ \E c \in Calls, ex \in NodeListExchanges : ListReceived(c, ex)
    \/ \E c \in Calls, ex \in NodeListExchanges : ListFallback(c, ex)
    \/ \E c \in Calls : StoreSummary(c)
    \/ \E c \in Calls : StoreTimestamp(c)
    \/ \E c \in Calls : Leave(c)

Spec == Init /\ [][Next]_vars

\* one step of call c between its entry and its return or raise
Step(c) ==
    \/ CheckCache(c)
    \/ ReturnCached(c)
    \/ \E config \in ServerConfigs : GetRpcClient(c, TRUE, config)
    \/ GetRpcClient(c, FALSE, NoConfig)
    \/ pc[c] = "import" /\ \E ex \in NodeImportExchanges : ImportViewingKey(c, ex)
    \/ pc[c] = "addresses" /\ \E ex \in NodeAddressExchanges : ListAddresses(c, ex)
    \/ pc[c] = "list" /\ \E ex \in NodeListExchanges : ListReceived(c, ex)
    \/ pc[c] = "fallback" /\ \E ex \in NodeListExchanges : ListFallback(c, ex)
    \/ StoreSummary(c)
    \/ StoreTimestamp(c)

\* The calls of get_cached_summary with the clock standing still, every
\* request a request to /summary and one configuration: none of the three
\* decides whether a step of a call is enabled
NextFair ==
    \/ \E c \in Calls, refresh \in BOOLEAN : Handle(c, "summary", refresh)
    \/ \E c \in Calls : CheckCache(c)
    \/ \E c \in Calls : ReturnCached(c)
    \/ \E c \in Calls : GetRpcClient(c, TRUE, ValidConfig)
    \/ \E c \in Calls : GetRpcClient(c, FALSE, NoConfig)
    \/ \E c \in Calls, ex \in NodeImportExchanges : ImportViewingKey(c, ex)
    \/ \E c \in Calls, ex \in NodeAddressExchanges : ListAddresses(c, ex)
    \/ \E c \in Calls, ex \in NodeListExchanges : ListReceived(c, ex)
    \/ \E c \in Calls, ex \in NodeListExchanges : ListFallback(c, ex)
    \/ \E c \in Calls : StoreSummary(c)
    \/ \E c \in Calls : StoreTimestamp(c)
    \/ \E c \in Calls : Leave(c)

\* A call that can take a step takes one: the thread handling the request
\* keeps running, and session.post (timeout=30, rpc_client.py 50-54) ends
\* with a response or an exception.  Requests arrive and callers collect
\* their answers without any such assumption.
SpecFair == Init /\ [][NextFair]_vars /\ \A c \in Calls : WF_vars(Step(c))

----------------------------------------------------------------------------
(* One client running scan_donations, one RPC round trip per step *)

\* a request together with the HTTP exchange and what _call made of it
Sent(sent, ex) == [request |-> sent, exchange |-> ex, reply |-> call(ex)]

\* scan_donations fails: the exception leaves the method
ScanRaise(r) ==
    /\ scan_pc' = "failed"
    /\ scan_out' = r
    /\ scan_address' = NoAddress
    /\ UNCHANGED scan_ok

\* the return as it would be if an empty list were treated as a failure
ScanReturnFailsOnEmpty(received) ==
    IF Truthy(received)
    THEN /\ scan_pc' = "done"
         /\ scan_out' = DonationSummary(scans, received, clock)
         /\ scan_address' = NoAddress
         /\ scan_ok' = scan_ok + 1
    ELSE /\ scan_pc' = "failed"
         /\ scan_out' = RPCError(<<"No transactions found">>)
         /\ scan_address' = NoAddress
         /\ UNCHANGED scan_ok

\* scan_donations lines 173-217: the summary is returned
ScanReturn(received) ==
    /\ scan_pc' = "done"
    /\ scan_out' = DonationSummary(scans, received, clock)
    /\ scan_address' = NoAddress
    /\ scan_ok' = scan_ok + 1

\* scan_donations is entered
ScanBegin ==
    /\ scan_pc \in {"idle", "done", "failed"}
    /\ scans < MaxScans
    /\ scans' = scans + 1
    /\ scan_pc' = "import"
    /\ scan_address' = NoAddress
    /\ scan_log' = <<>>
    /\ scan_out' = NoResult
    /\ UNCHANGED scan_ok

\* scan_donations is called
ScanStart ==
    /\ ScanBegin
    /\ UNCHANGED <<cachevars, clivars>>

\* lines 152-156: z_importviewingkey
ScanImport(ex) ==
    /\ scan_pc = "import"
    /\ scan_log' = Append(scan_log, Sent(ImportRequest(ValidConfig.viewing_key), ex))
    /\ LET r == ImportStep(ex) IN
       IF r.tag = "ok"
       THEN /\ scan_pc' = "addresses"
            /\ UNCHANGED <<scan_address, scan_out, scan_ok>>
       ELSE ScanRaise(r)
    /\ UNCHANGED <<scans, cachevars, clivars>>

\* lines 158-161: z_listaddresses, take the first address
ScanAddresses(ex) ==
    /\ scan_pc = "addresses"
    /\ scan_log' = Append(scan_log, Sent(AddressesRequest, ex))
    /\ LET r == get_address_from_viewing_key(ex) IN
       CASE r.tag = "ok" /\ r.address # NoAddress ->
                /\ scan_address' = r.address
                /\ scan_pc' = "list"
                /\ UNCHANGED <<scan_out, scan_ok>>
         [] r.tag = "ok" /\ r.address = NoAddress ->
                ScanRaise(RPCError(<<"No z-address found for viewing key">>))
         [] OTHER ->
                ScanRaise(OtherException)
    /\ UNCHANGED <<scans, cachevars, clivars>>

\* lines 164-171: z_listreceivedbyaddress(address, 0)
ScanList(ex) ==
    /\ scan_pc = "list"
    /\ scan_log' = Append(scan_log, Sent(ListRequest(scan_address), ex))
    /\ LET r == call(ex) IN
       CASE r.tag = "ok" -> ScanReturn(r.result)
         [] r.tag = "ZcashRPCError" /\ Contains(r.msg, "invalid parameter") ->
                /\ scan_pc' = "fallback"
                /\ UNCHANGED <<scan_address, scan_out, scan_ok>>
         [] OTHER -> ScanRaise(r)
    /\ UNCHANGED <<scans, cachevars, clivars>>

\* line 169 and list_received_by_address: z_listreceivedbyaddress(0, False, address)
ScanFallback(ex) ==
    /\ scan_pc = "fallback"
    /\ scan_log' = Append(scan_log, Sent(FallbackRequest(scan_address), ex))
    /\ LET r == call(ex) IN
       IF r.tag = "ok"
       THEN ScanReturn(r.result)
       ELSE ScanRaise(r)
    /\ UNCHANGED <<scans, cachevars, clivars>>

NextScan ==
    \/ ScanStart
    \/ \E ex \in Exchanges(ImportResults) : ScanImport(ex)
    \/ \E ex \in Exchanges(AddressResults) : ScanAddresses(ex)
    \/ \E ex \in Exchanges(ReceivedResults) : ScanList(ex)
    \/ \E ex \in Exchanges(ReceivedResults) : ScanFallback(ex)

SpecScan == Init /\ [][NextScan]_vars

----------------------------------------------------------------------------
(* The zdt command line: init, scan and report.  Each run of a command is   *)
(* a new process; the configuration file is what one run leaves to the     *)
(* next.                                                                   *)

Commands == {"init", "scan", "report"}

\* what init can build from its prompts: every value is non-empty and the
\* network is one of the two choices
PromptConfigs == {ValidConfig, [ValidConfig EXCEPT !.network = "mainnet"]}

\* what from_env can build: each variable set, or unset or empty, and
\* ZCASH_NETWORK one of three values
EnvConfigs ==
    {ZcashConfig(url, user, password, key, network) :
        url \in {RPC_URL, ""}, user \in {"user", ""}, password \in {"secret", ""},
        key \in {VIEWING_KEY, ""}, network \in {"testnet", "mainnet", "regtest"}}

\* the values of --limit
Limits == (0 - 1) .. MaxLimit

\* the exchanges of the node with a command: one for each thing _call can
\* make of an exchange that carries one of the results
CliExchanges(results) ==
    {CHOOSE ex \in Exchanges(results) : call(ex) = r :
        r \in {call(ex) : ex \in Exchanges(results)}}

InfoResults == {JNull}
InfoRequest == Request("getinfo", <<>>)

\* sys.exit(status), or the end of the command
CliExit(status) ==
    /\ cli_pc' = "exit"
    /\ cli_exit' = status

\* a command is run in a new process
CliStart(cmd, config) ==
    /\ cli_pc \in {"idle", "exit"}
    /\ cmd = "init" => config \in PromptConfigs
    /\ cmd # "init" => config = NoConfig /\ scans < MaxScans
    /\ cli_cmd' = cmd
    /\ cli_pc' = IF cmd = "init" THEN "validate" ELSE "load"
    /\ cli_source' = IF cmd = "init" THEN "prompt" ELSE ""
    /\ cli_config' = config
    /\ cli_errors' = <<>>
    /\ cli_log' = <<>>
    /\ cli_conn' = "None"
    /\ cli_out' = <<>>
    /\ cli_exit' = NoExit
    /\ cli_raised' = NoResult
    /\ cli_recent' = NoRecent
    /\ scan_pc' = "idle"
    /\ scan_address' = NoAddress
    /\ scan_log' = <<>>
    /\ scan_out' = NoResult
    /\ UNCHANGED <<config_file, scans, scan_ok, cachevars>>

\* load_config and the except clause around it (cli.py 126-130, 161-165):
\* the file if it exists, the environment otherwise; removed is the file
\* disappearing between the test of line 98 and the test of from_toml
CliLoadConfig(env, removed) ==
    /\ cli_pc = "load"
    /\ IF config_file # NoConfig
       THEN /\ env = EnvDefaults
            /\ IF removed
               THEN /\ config_file' = NoConfig
                    /\ cli_source' = "removed"
                    /\ cli_out' = Append(cli_out, <<"Configuration not found">>)
                    /\ CliExit(1)
                    /\ UNCHANGED cli_config
               ELSE /\ cli_config' = config_file
                    /\ cli_source' = "file"
                    /\ cli_pc' = "validate"
                    /\ UNCHANGED <<config_file, cli_out, cli_exit>>
       ELSE /\ ~removed
            /\ cli_config' = env
            /\ cli_source' = "env"
            /\ cli_pc' = "validate"
            /\ UNCHANGED <<config_file, cli_out, cli_exit>>
    /\ UNCHANGED <<cli_cmd, cli_errors, cli_log, cli_conn, cli_raised, cli_recent>>
    /\ UNCHANGED <<scanvars, cachevars>>

\* cli.py 92-99, 133-141, 168-175: validate, print the errors and exit, or
\* announce the next step
CliValidate ==
    /\ cli_pc = "validate"
    /\ cli_errors' = validate(cli_config)
    /\ IF validate(cli_config) # <<>>
       THEN /\ cli_out' = cli_out \o <<<<"Configuration errors:">>>>
                            \o [i \in 1..Len(validate(cli_config)) |->
                                    <<"  - ", validate(cli_config)[i]>>]
            /\ CliExit(1)
       ELSE /\ cli_out' = Append(cli_out,
                    CASE cli_cmd = "init" -> <<"Testing connection to zcashd...">>
                      [] cli_cmd = "scan" -> <<"Scanning for donations...">>
                      [] OTHER -> <<"Generating donation report...">>)
            /\ cli_pc' = IF cli_cmd = "init" THEN "connect" ELSE "scan"
            /\ UNCHANGED cli_exit
    /\ UNCHANGED <<config_file, cli_cmd, cli_source, cli_config, cli_log,
                   cli_conn, cli_raised, cli_recent>>
    /\ UNCHANGED <<scanvars, cachevars>>

\* ZcashRPCClient.test_connection: True, False, or the exception it lets through
test_connection(ex) ==
    CASE call(ex).tag = "ok" -> "True"
      [] call(ex).tag = "ZcashRPCError" -> "False"
      [] OTHER -> "raised"

\* cli.py 100-120: test_connection, then save_config
CliTestConnection(ex) ==
    /\ cli_pc = "connect"
    /\ cli_log' = Append(cli_log, Sent(InfoRequest, ex))
    /\ cli_conn' = test_connection(ex)
    /\ CASE test_connection(ex) = "True" ->
                /\ config_file' = cli_config
                /\ cli_out' = cli_out \o <<<<"Connection successful!">>,
                                            <<"Configuration saved to: ">>>>
                /\ CliExit(0)
                /\ UNCHANGED cli_raised
         [] test_connection(ex) = "False" ->
                /\ cli_out' = Append(cli_out, <<"Connection failed">>)
                /\ CliExit(1)
                /\ UNCHANGED <<config_file, cli_raised>>
         [] OTHER ->
                /\ cli_raised' = call(ex)
                /\ CliExit(1)
                /\ UNCHANGED <<config_file, cli_out>>
    /\ UNCHANGED <<cli_cmd, cli_source, cli_config, cli_errors, cli_recent>>
    /\ UNCHANGED <<scanvars, cachevars>>

\* cli.py 144-145, 179-180: client.scan_donations() is called
CliScan ==
    /\ cli_pc = "scan"
    /\ ScanBegin
    /\ cli_pc' = "scanning"
    /\ UNCHANGED <<config_file, cli_cmd, cli_source, cli_config, cli_errors,
                   cli_log, cli_conn, cli_out, cli_exit, cli_raised, cli_recent>>
    /\ UNCHANGED cachevars

\* cli.py 147-150: scan prints the summary
CliScanDone ==
    /\ cli_pc = "scanning"
    /\ cli_cmd = "scan"
    /\ scan_pc = "done"
    /\ cli_out' = cli_out \o <<<<"Scan complete!">>, <<"Total donations: ">>,
                                <<"Number of transactions: ">>, <<"Last updated: ">>>>
    /\ CliExit(0)
    /\ UNCHANGED <<config_file, cli_cmd, cli_source, cli_config, cli_errors,
                   cli_log, cli_conn, cli_raised, cli_recent>>
    /\ UNCHANGED <<scanvars, cachevars>>

\* cli.py 182-215: report prints the summary and the table of recent transfers
CliReportDone(limit) ==
    /\ cli_pc = "scanning"
    /\ cli_cmd = "report"
    /\ scan_pc = "done"
    /\ IF scan_out.tx_count > 0
       THEN /\ cli_recent' = [limit |-> limit,
                              rows |-> get_last_transactions(scan_out.transactions, limit)]
            /\ cli_out' = cli_out \o <<<<"Donation Summary">>, <<"Last ">>>>
       ELSE /\ limit = 0
            /\ cli_recent' = NoRecent
            /\ cli_out' = cli_out \o <<<<"Donation Summary">>, <<"No transactions found.">>>>
    /\ CliExit(0)
    /\ UNCHANGED <<config_file, cli_cmd, cli_source, cli_config, cli_errors,
                   cli_log, cli_conn, cli_raised>>
    /\ UNCHANGED <<scanvars, cachevars>>

\* cli.py 152-154, 217-219: the except clause names ZcashRPCError; any other
\* exception leaves the command and ends the process with status 1
CliScanFailed ==
    /\ cli_pc = "scanning"
    /\ scan_pc = "failed"
    /\ IF scan_out.tag = "ZcashRPCError"
       THEN /\ cli_out' = Append(cli_out, <<"Error: ">> \o scan_out.msg)
            /\ UNCHANGED cli_raised
       ELSE /\ cli_raised' = scan_out
            /\ UNCHANGED cli_out
    /\ CliExit(1)
    /\ UNCHANGED <<config_file, cli_cmd, cli_source, cli_config, cli_errors,
                   cli_log, cli_conn, cli_recent>>
    /\ UNCHANGED <<scanvars, cachevars>>

NextCli ==
    \/ \E cmd \in Commands, config \in PromptConfigs \cup {NoConfig} :
            CliStart(cmd, config)
    \/ \E env \in EnvConfigs, removed \in BOOLEAN : CliLoadConfig(env, removed)
    \/ CliValidate
    \/ \E ex \in CliExchanges(InfoResults) : CliTestConnection(ex)
    \/ CliScan
    \/ \E ex \in CliExchanges(ImportResults) : ScanImport(ex)
    \/ \E ex \in CliExchanges(AddressResults) : ScanAddresses(ex)
    \/ \E ex \in CliExchanges(ReceivedResults) : ScanList(ex)
    \/ \E ex \in CliExchanges(ReceivedResults) : ScanFallback(ex)
    \/ CliScanDone
    \/ \E limit \in Limits : CliReportDone(limit)
    \/ CliScanFailed

SpecCli == Init /\ [][NextCli]_vars

----------------------------------------------------------------------------
(* Properties of the summary cache *)

\* pcs at which a scan_donations call of the caller is in flight
ScanPcs == {"import", "addresses", "list", "fallback"}

\* scan_donations calls the current call has started (each opens with the import)
ScanCount(c) ==
    Cardinality({i \in 1..Len(log[c]) : log[c][i].method = "z_importviewingkey"})

\* the caller c takes the step that leaves position p
Leaves(c, p) == pc[c] = p /\ pc'[c] # p

\* C1: a call with force_refresh false that finds a cached summary younger
\* than 60 seconds takes the cached path, and on that path it returns the
\* cached summary object, sends no request to the node and changes neither
\* the cached summary nor the cached time.
CacheHitStep ==
    \A c \in Calls :
        /\ ( /\ Leaves(c, "check")
             /\ ~frame[c].force_refresh
             /\ cached_summary # NoSummary
             /\ cache_timestamp # NoTime
             /\ frame[c].now - cache_timestamp < 60 )
           => /\ pc'[c] = "hit"
              /\ log'[c] = <<>>
              /\ UNCHANGED <<cached_summary, cache_timestamp>>
        /\ Leaves(c, "hit")
           => /\ pc'[c] = "returned"
              /\ result'[c] = cached_summary
              /\ result'[c].tag = "Summary"
              /\ log'[c] = <<>>
              /\ wrote'[c] = 0
              /\ UNCHANGED <<cached_summary, cache_timestamp>>

CacheHit == [][CacheHitStep]_vars

\* a call issued within the 60 seconds after the refresh was served the
\* summary of an earlier call
CacheHitWitness ==
    \E c \in Calls :
        /\ pc[c] = "returned"
        /\ path[c] = "hit"
        /\ result[c] = cached_summary
        /\ result[c].id # c
        /\ clock - cache_timestamp = 0

\* C2: a call refreshes whenever force_refresh is true, the cache is empty or
\* the cached time is 60 seconds old or more; a refreshing call starts the
\* scan once and never twice, and when the scan succeeds the summary it
\* stores in the cache and returns is the one that scan produced.
RefreshTriggerStep ==
    \A c \in Calls :
        /\ ( /\ Leaves(c, "check")
             /\ \/ frame[c].force_refresh
                \/ cached_summary = NoSummary
                \/ cache_timestamp = NoTime
                \/ frame[c].now - cache_timestamp >= 60 )
           => pc'[c] = "refresh" /\ path'[c] = "refresh"
        /\ pc'[c] = "refresh" => pc[c] \in {"check", "refresh"}
        /\ pc'[c] = "import" => pc[c] \in {"refresh", "import"}
        /\ Leaves(c, "store_summary")
           => /\ cached_summary' = frame[c].summary
              /\ cached_summary'.id = c
        /\ Leaves(c, "store_timestamp")
           => /\ pc'[c] = "returned"
              /\ result'[c] = frame[c].summary
              /\ result'[c].id = c

RefreshTriggerInv ==
    \A c \in Calls :
        /\ ScanCount(c) <= 1
        /\ pc[c] \in (ScanPcs \ {"import"}) \cup {"store_summary", "store_timestamp"}
           => ScanCount(c) = 1
        /\ (pc[c] = "returned" /\ path[c] = "refresh")
           => /\ ScanCount(c) = 1
              /\ wrote[c] = 2
              /\ result[c].tag = "Summary"
              /\ result[c].id = c
        /\ (pc[c] = "returned" /\ path[c] = "hit") => ScanCount(c) = 0

RefreshTrigger == []RefreshTriggerInv /\ [][RefreshTriggerStep]_vars

\* a forced call made while the cache was still fresh has scanned and
\* replaced the cached summary by its own
RefreshTriggerWitness ==
    \E c \in Calls :
        /\ pc[c] = "returned"
        /\ path[c] = "refresh"
        /\ c > 1
        /\ result[c] = cached_summary
        /\ stamped_by = c
        /\ clock - cache_timestamp < 60
        /\ ScanCount(c) = 1

\* C3: a call whose scan fails (configuration or RPC failure) assigns neither
\* the cached summary nor the cached time; the only steps that change either
\* are the two assignments that follow a scan that returned a summary.
FailureIsolationStep ==
    /\ \A c \in Calls :
          (pc'[c] = "raised" /\ pc[c] # "raised")
          => /\ UNCHANGED <<cached_summary, cache_timestamp>>
             /\ wrote[c] = 0
             /\ wrote'[c] = 0
    /\ (cached_summary' # cached_summary \/ cache_timestamp' # cache_timestamp)
       => \E c \in Calls :
             /\ pc[c] \in {"store_summary", "store_timestamp"}
             /\ pc'[c] # pc[c]
             /\ frame[c].summary.tag = "Summary"

NoSyntheticSuccessStep ==
    \A c \in Calls :
        (pc[c] \in {"refresh"} \cup ScanPcs /\ pc'[c] # pc[c])
        => \/ pc'[c] \in ScanPcs
           \/ /\ pc'[c] = "store_summary"
              /\ frame'[c].summary.id = c
           \/ /\ pc'[c] = "raised"
              /\ result'[c].tag = "HTTPException"

NoSyntheticSuccessInv ==
    \A c \in Calls :
        /\ pc[c] = "raised" => result[c].tag = "HTTPException"
        /\ (path[c] = "refresh" /\ result[c].tag = "Summary")
           => /\ result[c].id = c
              /\ log[c] # <<>>
              /\ log[c][Len(log[c])].method = "z_listreceivedbyaddress"

NoSyntheticSuccess == []NoSyntheticSuccessInv /\ [][NoSyntheticSuccessStep]_vars

\* a refresh failed with an RPC error while an older summary was cached, and
\* the caller got the error
NoSyntheticSuccessWitness ==
    \E c \in Calls :
        /\ pc[c] = "raised"
        /\ path[c] = "refresh"
        /\ result[c] = HTTPException(502)
        /\ cached_summary # NoSummary
        /\ cached_summary.id # c

\* the cached summary and the cached time were assigned by the same call
PairConsistent ==
    /\ (cached_summary = NoSummary) <=> (cache_timestamp = NoTime)
    /\ cached_summary # NoSummary => stamped_by = cached_summary.id

CacheTimeIsGenerationTime ==
    \A c \in Calls :
        ( /\ pc[c] = "returned"
          /\ path[c] = "refresh"
          /\ cached_summary = result[c]
          /\ stamped_by = c )
        => cache_timestamp = cached_summary.last_updated

\* C9: the cache starts empty, is populated only by the assignment that
\* follows a scan that returned a summary, a failing call leaves an empty
\* cache empty, and a populated cache is never emptied.
CacheStateMachineStep ==
    /\ cached_summary # NoSummary => cached_summary' # NoSummary
    /\ cache_timestamp # NoTime => cache_timestamp' # NoTime
    /\ (cached_summary = NoSummary /\ cached_summary' # NoSummary)
       => \E c \in Calls :
             /\ Leaves(c, "store_summary")
             /\ cached_summary' = frame[c].summary
             /\ cached_summary'.tag = "Summary"
             /\ log[c][Len(log[c])].method = "z_listreceivedbyaddress"
    /\ \A c \in Calls :
          (pc'[c] = "raised" /\ pc[c] # "raised" /\ cached_summary = NoSummary)
          => cached_summary' = NoSummary

CacheStateMachine ==
    /\ cached_summary = NoSummary
    /\ cache_timestamp = NoTime
    /\ [][CacheStateMachineStep]_vars

\* the cache is populated and a later call has failed before its first RPC
CacheStateMachineWitness ==
    \E c \in Calls :
        /\ pc[c] = "raised"
        /\ log[c] = <<>>
        /\ result[c] = HTTPException(500)
        /\ cached_summary # NoSummary
        /\ cache_timestamp # NoTime
        /\ c > cached_summary.id

----------------------------------------------------------------------------
(* Properties of the scan engine *)

\* C10: one scan sends its requests in the order z_importviewingkey,
\* z_listaddresses, z_listreceivedbyaddress; z_listaddresses is sent only
\* after the import counted as success (it succeeded or failed with an
\* "already have" message), and z_listreceivedbyaddress only after
\* z_listaddresses returned a non-empty list, with the first address of that
\* list and minimum confirmations 0 as parameters.
ScanStepOrder ==
    LET n == Len(scan_log) IN
    /\ n <= 4
    /\ n >= 1 => scan_log[1].request =
                    Request("z_importviewingkey", <<VIEWING_KEY, "whenkeyisnew">>)
    /\ n >= 2 => /\ scan_log[2].request = Request("z_listaddresses", <<>>)
                 /\ \/ scan_log[1].reply.tag = "ok"
                    \/ /\ scan_log[1].reply.tag = "ZcashRPCError"
                       /\ Contains(scan_log[1].reply.msg, "already have")
    /\ n >= 3 => /\ scan_log[2].reply.tag = "ok"
                 /\ scan_log[2].reply.result.v = "list"
                 /\ scan_log[2].reply.result.items # <<>>
                 /\ scan_log[3].request =
                       Request("z_listreceivedbyaddress",
                               <<Head(scan_log[2].reply.result.items), "0">>)
    /\ n >= 4 => scan_log[4].request.method = "z_listreceivedbyaddress"
    /\ scan_pc = "import" => n = 0
    /\ scan_pc = "addresses" => n = 1
    /\ scan_pc = "list" => n = 2
    /\ scan_pc = "fallback" => n = 3
    /\ scan_pc = "done" => n \in {3, 4}

\* a scan has completed after the node listed two addresses: the list call
\* carried the first of them
ScanStepOrderWitness ==
    /\ scan_pc = "done"
    /\ Len(scan_log) = 3
    /\ scan_log[2].reply.result.items = <<"zaddrB", "zaddrA">>
    /\ scan_log[3].request.params = <<"zaddrB", "0">>
    /\ scan_out.tag = "Summary"

\* the node answered the request of a log entry with a result and no error
Answered(entry) ==
    /\ entry.exchange.x = "Body"
    /\ entry.exchange.error = ErrNull

\* the node answered with a protocol error saying that it already has the key
AlreadyRegistered(entry) ==
    /\ entry.exchange.x = "Body"
    /\ entry.exchange.error = ErrDict("Wallet Already Have key")

\* C11: when z_importviewingkey (sent with rescan mode "whenkeyisnew") fails
\* with a protocol error whose message says the key is already there, the
\* import counts as success and the scan goes on to z_listaddresses; a scan
\* whose import is accepted or reported as already done, and whose address
\* and list calls are answered, returns a summary, whichever scan it is.
IdempotentImport ==
    LET n == Len(scan_log) IN
    /\ (n >= 1 /\ AlreadyRegistered(scan_log[1]))
       => /\ scan_log[1].request.params = <<VIEWING_KEY, "whenkeyisnew">>
          /\ n = 1 => (scan_pc = "addresses" /\ scan_out = NoResult)
          /\ n >= 2 => scan_log[2].request.method = "z_listaddresses"
    /\ ( /\ n = 3
         /\ Answered(scan_log[1]) \/ AlreadyRegistered(scan_log[1])
         /\ Answered(scan_log[2])
         /\ Answered(scan_log[3]) )
       => /\ scan_pc = "done"
          /\ scan_out.tag = "Summary"
          /\ scan_ok >= 1

\* the first scan's import was accepted, the second scan's import was
\* reported as already done, and both scans returned a summary
IdempotentImportWitness ==
    /\ scans = 2
    /\ scan_ok = 2
    /\ scan_pc = "done"
    /\ Len(scan_log) = 3
    /\ AlreadyRegistered(scan_log[1])
    /\ scan_out.tag = "Summary"

\* C12: when the import call fails with anything but a protocol error saying
\* the key is already there (a connection, timeout or request failure with
\* any text in particular), the scan fails with ZcashRPCError and sends no
\* further request.
ImportFailureAborts ==
    LET n == Len(scan_log) IN
    (n >= 1 /\ scan_log[1].reply.tag # "ok" /\ ~AlreadyRegistered(scan_log[1]))
    => /\ n = 1
       /\ scan_pc = "failed"
       /\ scan_out.tag = "ZcashRPCError"

\* C13: when z_listaddresses returns an empty list or the call fails, the
\* scan fails with ZcashRPCError, sends no z_listreceivedbyaddress request and
\* holds no address.
AddressFailureAborts ==
    LET n == Len(scan_log) IN
    ( /\ n >= 2
      /\ \/ scan_log[2].reply.tag # "ok"
         \/ scan_log[2].reply.result = JList(<<>>) )
    => /\ n = 2
       /\ scan_pc = "failed"
       /\ scan_out.tag = "ZcashRPCError"
       /\ scan_address = NoAddress

\* the node answered with a protocol error of the invalid-parameter class
InvalidParameter(entry) ==
    /\ entry.exchange.x = "Body"
    /\ entry.exchange.error = ErrDict("Invalid Parameter, expected")

\* the raw entries of a result that carry an amount > 0
Donations(r) ==
    IF r.v = "list"
    THEN SelectSeq(r.items, LAMBDA e : "amount" \in DOMAIN e /\ e.amount > 0)
    ELSE <<>>

\* C14: when z_listreceivedbyaddress(address, 0) fails with an
\* invalid-parameter protocol error, the scan sends exactly one more request,
\* z_listreceivedbyaddress(0, false, address) for the same address, and when
\* that one succeeds the scan returns the summary of its result.
ListFallbackOnce ==
    LET n == Len(scan_log) IN
    (n >= 3 /\ InvalidParameter(scan_log[3]))
    => /\ n <= 4
       /\ n = 3 => (scan_pc = "fallback" /\ scan_out = NoResult)
       /\ n = 4
          => /\ scan_log[4].request =
                   Request("z_listreceivedbyaddress",
                           <<"0", "False", scan_log[3].request.params[1]>>)
             /\ scan_log[3].request.params[1] = Head(scan_log[2].reply.result.items)
             /\ scan_pc \in {"done", "failed"}
             /\ scan_log[4].reply.tag = "ok"
                => /\ scan_pc = "done"
                   /\ scan_out.tag = "Summary"
                   /\ scan_out.tx_count = Len(Donations(scan_log[4].reply.result))
                   /\ \A i \in 1..scan_out.tx_count :
                         scan_out.transactions[i].txid =
                            Donations(scan_log[4].reply.result)[i].txid

\* the primary call was refused as an invalid parameter and the scan returned
\* the two donations the secondary call listed
ListFallbackOnceWitness ==
    /\ scan_pc = "done"
    /\ Len(scan_log) = 4
    /\ InvalidParameter(scan_log[3])
    /\ scan_log[4].request.params = <<"0", "False", "zaddrB">>
    /\ scan_out.tag = "Summary"
    /\ scan_out.tx_count = 2

\* number of requests of one method in the log of the scan
Requests(method) ==
    Cardinality({i \in 1..Len(scan_log) : scan_log[i].request.method = method})

\* C15: a failure of the primary list call that is not an invalid-parameter
\* protocol error aborts the scan without a second list call, a failure of
\* the fallback call aborts the scan, the import and address requests are
\* sent at most once, and one scan sends at most four requests.
NoRetriesBeyondFallback ==
    LET n == Len(scan_log) IN
    /\ n <= 4
    /\ Requests("z_importviewingkey") <= 1
    /\ Requests("z_listaddresses") <= 1
    /\ Requests("z_listreceivedbyaddress") <= 2
    /\ (n >= 3 /\ scan_log[3].reply.tag # "ok" /\ ~InvalidParameter(scan_log[3]))
       => (n = 3 /\ scan_pc = "failed")
    /\ (n = 4 /\ scan_log[4].reply.tag # "ok") => scan_pc = "failed"

RECURSIVE SumAmounts(_)
SumAmounts(txs) ==
    IF txs = <<>> THEN 0 ELSE Head(txs).amount + SumAmounts(Tail(txs))

\* C16: a returned summary has total_donations equal to the sum of the
\* amounts of its transactions, tx_count equal to their number and only
\* amounts > 0; its transactions are the raw entries with amount > 0 of the
\* node's list, each once and in order, with txid, amount, confirmations and
\* block time as listed, and the total is the sum of those amounts.
AggregationInvariant ==
    scan_pc = "done"
    => LET raw == Donations(scan_log[Len(scan_log)].reply.result)
           txs == scan_out.transactions
       IN /\ scan_out.total_donations = SumAmounts(txs)
          /\ scan_out.tx_count = Len(txs)
          /\ \A i \in 1..Len(txs) : txs[i].amount > 0
          /\ scan_out.total_donations = SumAmounts(raw)
          /\ Len(txs) = Len(raw)
          /\ \A i \in 1..Len(raw) :
                /\ txs[i].txid = raw[i].txid
                /\ txs[i].amount = raw[i].amount
                /\ txs[i].confirmations = raw[i].confirmations
                /\ txs[i].block_time =
                      (IF "blocktime" \in DOMAIN raw[i]
                       THEN [some |-> TRUE, v |-> raw[i].blocktime]
                       ELSE [some |-> FALSE, v |-> 0])

\* a scan returned the two donations of a list that also held an entry with a
\* negative amount and one without an amount
AggregationInvariantWitness ==
    /\ scan_pc = "done"
    /\ Len(scan_log[Len(scan_log)].reply.result.items) = 4
    /\ scan_out.tx_count = 2
    /\ scan_out.total_donations = 50

\* C17: when the import and address steps succeeded and the list call
\* returns an empty list or null, the scan returns a summary with total 0,
\* count 0 and no transactions.
EmptyShortCircuit ==
    LET n == Len(scan_log) IN
    ( /\ n \in {3, 4}
      /\ scan_log[n].reply.tag = "ok"
      /\ scan_log[n].reply.result \in {JNull, JList(<<>>)} )
    => /\ scan_pc = "done"
       /\ scan_out.tag = "Summary"
       /\ scan_out.total_donations = 0
       /\ scan_out.tx_count = 0
       /\ scan_out.transactions = <<>>

\* the list call returned null and the scan returned the zero summary
EmptyShortCircuitWitness ==
    /\ scan_pc = "done"
    /\ Len(scan_log) = 3
    /\ scan_log[3].exchange.result = JNull
    /\ scan_out.tag = "Summary"
    /\ scan_out.tx_count = 0

----------------------------------------------------------------------------
(* Properties of the transport *)

\* C18: whatever the HTTP exchange, _call returns the result field of the
\* response or raises ZcashRPCError, and nothing else.
TypedFailureOnly ==
    \A i \in 1..Len(scan_log) :
        LET e == scan_log[i] IN
        /\ e.reply.tag \in {"ok", "ZcashRPCError"}
        /\ e.reply.tag = "ok"
           => (e.exchange.x = "Body" /\ e.reply.result = e.exchange.result)

\* C19: a body with a non-null error field makes _call raise the protocol
\* error with the remote message, whatever the result field; a body whose
\* error field is absent or null makes it return the result field.
ProtocolErrorPriority ==
    \A i \in 1..Len(scan_log) :
        LET e == scan_log[i] IN
        e.exchange.x = "Body"
        => IF e.exchange.error.e \in {"null", "absent"}
           THEN e.reply = [tag |-> "ok", result |-> e.exchange.result, msg |-> <<>>]
           ELSE /\ e.reply.tag = "ZcashRPCError"
                /\ e.reply.msg = <<"RPC error: ", e.exchange.error.message>>

\* the kind of failure a caller can read off what _call raised
KindOf(reply) ==
    IF reply.tag # "ZcashRPCError" THEN "none"
    ELSE CASE reply.msg[1] = "Failed to connect to Zcash RPC at " -> "connection"
           [] reply.msg[1] = "Zcash RPC request timed out" -> "timeout"
           [] reply.msg[1] = "RPC error: " -> "protocol"
           [] reply.msg[1] = "Zcash RPC request failed: " -> "request"
           [] OTHER -> "none"

\* the kind of what went wrong in the exchange
WentWrong(ex) ==
    CASE ex.x = "ConnectionError" -> "connection"
      [] ex.x = "Timeout" -> "timeout"
      [] ex.x = "Body" -> "protocol"
      [] OTHER -> "request"

\* C20: every failure of _call is of exactly one of the kinds connection
\* (with the endpoint URL and the cause), timeout, protocol and request, and
\* the kind is the one of what went wrong in the exchange.
ErrorTaxonomy ==
    \A i \in 1..Len(scan_log) :
        LET e == scan_log[i] IN
        e.reply.tag # "ok"
        => /\ KindOf(e.reply) = WentWrong(e.exchange)
           /\ KindOf(e.reply) = "connection"
              => (e.reply.msg[2] = RPC_URL /\ e.reply.msg[4] = e.exchange.cause)

----------------------------------------------------------------------------
(* Properties of the failures of a scan *)

\* the text _call gives to the transport or protocol failure of a log entry
CauseText(entry) == entry.reply.msg

\* msg ends with the text cause
EndsWith(msg, cause) ==
    /\ Len(msg) >= Len(cause)
    /\ SubSeq(msg, Len(msg) - Len(cause) + 1, Len(msg)) = cause

\* C23: a failed scan raises ZcashRPCError whose text names the step that
\* failed (import, address resolution or listing) and carries the text of
\* the transport failure that caused it.
ScanFailureContext ==
    scan_pc = "failed"
    => LET n == Len(scan_log)
           last == scan_log[n]
       IN /\ scan_out.tag = "ZcashRPCError"
          /\ n = 1 => scan_out.msg[1] = "Failed to import viewing key: "
          /\ n = 2 => scan_out.msg[1] = "No z-address found for viewing key"
          /\ n >= 3 => scan_out.msg[1] \notin
                          {"Failed to connect to Zcash RPC at ",
                           "Zcash RPC request timed out",
                           "Zcash RPC request failed: ", "RPC error: "}
          /\ last.reply.tag = "ZcashRPCError"
             => EndsWith(scan_out.msg, CauseText(last))

\* the transactions of a returned summary next to the raw entries they
\* were built from
Listed == Donations(scan_log[Len(scan_log)].reply.result)

\* the text holds hexadecimal digits only, an even number of them
HexText(text) ==
    /\ Len(text) % 2 = 0
    /\ \A i \in 1..Len(text) : text[i] \in (48..57) \cup (97..102) \cup (65..70)

\* C27: a memo that is valid hex is decoded (hex to bytes, UTF-8, NUL padding
\* stripped; "54657374" gives "Test"), a memo that is not valid hex or not
\* valid UTF-8 is kept as the raw string, and no memo makes the scan fail or
\* the entry be dropped.
MemoLeniency ==
    scan_pc = "done"
    => /\ Len(scan_out.transactions) = Len(Listed)
       /\ \A i \in 1..Len(Listed) :
             "memo" \in DOMAIN Listed[i]
             => LET raw == Listed[i].memo
                    memo == scan_out.transactions[i].memo
                IN /\ memo.some
                   /\ raw = MemoTest => memo.v = <<84, 101, 115, 116>>
                   /\ raw = MemoTestPadded => memo.v = <<84, 101, 115, 116>>
                   /\ raw = MemoTwoBytes => memo.v = <<233>>
                   /\ ~HexText(raw) => memo.v = raw
                   /\ raw = MemoNotUtf8 => memo.v = raw

\* C27 as amended: a memo that is valid hex is decoded with the bytes that
\* are not valid UTF-8 left out and the NUL padding stripped; a memo that is
\* not valid hex is kept as the raw string; no memo makes the scan fail or
\* the entry be dropped.
MemoLeniencyLossy ==
    scan_pc = "done"
    => /\ Len(scan_out.transactions) = Len(Listed)
       /\ \A i \in 1..Len(Listed) :
             "memo" \in DOMAIN Listed[i]
             => LET raw == Listed[i].memo
                    memo == scan_out.transactions[i].memo
                IN /\ memo.some
                   /\ raw = MemoTest => memo.v = <<84, 101, 115, 116>>
                   /\ raw = MemoTestPadded => memo.v = <<84, 101, 115, 116>>
                   /\ raw = MemoTwoBytes => memo.v = <<233>>
                   /\ ~HexText(raw) => memo.v = raw
                   /\ raw = MemoNotUtf8 => memo.v = <<84>>

\* a scan returned entries whose memos were padded, not hex, of odd length
\* and not UTF-8
MemoLeniencyLossyWitness ==
    /\ scan_pc = "done"
    /\ Len(scan_out.transactions) = 5
    /\ scan_out.transactions[1].memo = [some |-> TRUE, v |-> <<84, 101, 115, 116>>]
    /\ scan_out.transactions[2].memo = [some |-> TRUE, v |-> <<120, 121, 122>>]
    /\ scan_out.transactions[3].memo = [some |-> TRUE, v |-> <<84>>]
    /\ scan_out.transactions[4].memo = [some |-> TRUE, v |-> <<53, 52, 54>>]

----------------------------------------------------------------------------
(* Properties of the configuration *)

\* the messages of the rules a configuration violates
ViolatedRules(config) ==
    {m \in {"RPC URL is required", "RPC user is required",
            "RPC password is required", "Viewing key is required",
            "Invalid network"} :
        \/ m = "RPC URL is required" /\ config.rpc_url = ""
        \/ m = "RPC user is required" /\ config.rpc_user = ""
        \/ m = "RPC password is required" /\ config.rpc_password = ""
        \/ m = "Viewing key is required" /\ config.viewing_key = ""
        \/ m = "Invalid network" /\ config.network # "testnet"
                                 /\ config.network # "mainnet"}

----------------------------------------------------------------------------
(* Properties of the HTTP surface *)

\* C28: a request to /ui with refresh=true sends the call into a new scan
\* whatever the age of the cache, as a request to /summary or
\* /last-transactions with refresh=true does.
UiRefreshStep ==
    \A c \in Calls :
        (Leaves(c, "check") /\ request[c].refresh) => pc'[c] = "refresh"

UiRefresh == [][UiRefreshStep]_vars

\* C29: the first RPC of a refresh is sent only with a configuration for
\* which validate() reports no error.
ValidatedBeforeScanStep ==
    \A c \in Calls :
        Leaves(c, "import") => ViolatedRules(frame[c].config) = {}

ValidatedBeforeScan == [][ValidatedBeforeScanStep]_vars

----------------------------------------------------------------------------
(* Properties of the command line *)

\* the command has called validate
Validated ==
    \/ cli_pc \in {"connect", "scan", "scanning"}
    \/ cli_pc = "exit" /\ cli_source # "removed"

\* C26: validate returns the empty list exactly when the four fields are
\* non-empty and the network is testnet or mainnet; otherwise the list holds
\* one error for each violated rule and nothing else
ConfigValidation ==
    Validated =>
        /\ (cli_errors = <<>>) <=>
                /\ cli_config.rpc_url # ""
                /\ cli_config.rpc_user # ""
                /\ cli_config.rpc_password # ""
                /\ cli_config.viewing_key # ""
                /\ cli_config.network \in {"testnet", "mainnet"}
        /\ Len(cli_errors) = Cardinality(ViolatedRules(cli_config))
        /\ \A m \in ViolatedRules(cli_config) :
                \E i \in 1..Len(cli_errors) : cli_errors[i] = m

\* a command has validated a configuration that lacks the viewing key and
\* names an unknown network, and nothing else
ConfigValidationWitness ==
    /\ Validated
    /\ cli_config.viewing_key = ""
    /\ cli_config.network = "regtest"
    /\ cli_config.rpc_user # ""
    /\ Len(cli_errors) = 2

\* C21: test_connection sends exactly one getinfo request, returns True
\* exactly when the call succeeds, and returns False for every failure of
\* the call
ConnectionTest ==
    cli_conn # "None" =>
        /\ Len(cli_log) = 1
        /\ cli_log[1].request = InfoRequest
        /\ (cli_conn = "True") <=> (cli_log[1].reply.tag = "ok")
        /\ cli_log[1].reply.tag # "ok" => cli_conn = "False"

\* the transfers of the summary that have an origination time
Timed(txs) == {i \in 1..Len(txs) : txs[i].block_time.some}

\* C22: the report shows min(limit, k) transfers, all with an origination
\* time, latest first, and no transfer left out is later than one shown;
\* k counts every transfer that has an origination time, time 0 included
RecentTransfers ==
    (cli_cmd = "report" /\ cli_pc = "exit" /\ cli_exit = 0
        /\ scan_out.tx_count > 0) =>
        LET txs == scan_out.transactions
            rows == cli_recent.rows
            limit == cli_recent.limit
            k == Cardinality(Timed(txs))
        IN /\ Len(rows) <= limit
           /\ Len(rows) = IF limit < k THEN limit ELSE k
           /\ \A j \in 1..Len(rows) :
                /\ rows[j].block_time.some
                /\ \E i \in Timed(txs) : txs[i] = rows[j]
           /\ \A j \in 1..(Len(rows) - 1) :
                rows[j].block_time.v >= rows[j + 1].block_time.v
           /\ \A i \in Timed(txs) :
                (\A j \in 1..Len(rows) : rows[j] # txs[i]) =>
                    \A j \in 1..Len(rows) :
                        rows[j].block_time.v >= txs[i].block_time.v

\* a line of the output starts with the text
Printed(text) == \E i \in 1..Len(cli_out) : cli_out[i][1] = text

\* C24: when scan_donations fails in the scan command, whatever it raises,
\* the command exits with status 1, has printed an error line and has
\* printed no result
CliScanFailure ==
    (cli_cmd = "scan" /\ cli_pc = "exit" /\ scan_pc = "failed") =>
        /\ cli_exit = 1
        /\ Printed("Error: ")
        /\ ~Printed("Scan complete!")

\* C25: when neither the file nor any environment variable supplies a
\* configuration, the scan command reports that the configuration was not
\* found (and not a validation error), exits with status 1 and sends no
\* request
ConfigNotFound ==
    (cli_cmd = "scan" /\ cli_pc = "exit" /\ cli_source = "env"
        /\ cli_config = EnvDefaults) =>
        /\ Printed("Configuration not found")
        /\ ~Printed("Configuration errors:")
        /\ cli_exit = 1
        /\ scan_log = <<>>

----------------------------------------------------------------------------
(* Termination *)

\* positions of a call inside get_cached_summary, scan_donations included
InCall == {"check", "hit", "refresh", "import", "addresses", "list",
           "fallback", "store_summary", "store_timestamp"}

\* C31: every get_cached_summary call, and with it every scan_donations
\* call, completes: from some point on no call is inside either of them,
\* every call that has returned has returned a summary and every call that
\* has raised has raised an error; and a call that has not completed always
\* has a step it can take.
Termination ==
    /\ <>[](\A c \in Calls :
                /\ pc[c] \notin InCall
                /\ pc[c] = "returned" => result[c].tag = "Summary"
                /\ pc[c] = "raised" => result[c].tag = "HTTPException")
    /\ [](\A c \in Calls : pc[c] \in InCall => ENABLED Step(c))

\* a call has returned the summary of a scan that went through all four
\* requests while another call was inside get_cached_summary
TerminationWitness ==
    \E c \in Calls :
        /\ pc[c] = "returned"
        /\ path[c] = "refresh"
        /\ Len(log[c]) = 4
        /\ result[c].tag = "Summary"
        /\ \E b \in Calls : b # c /\ pc[b] \in InCall

====
